---- MODULE Spec2Model ----
(***************************************************************************)
(* A model of monitor_travelodge.py: the price extraction of one rate      *)
(* button, the resolution of the Saver rate, the fallback choice among the *)
(* amounts scanned from the page, and main()'s change detection and        *)
(* persistence of the last seen price.                                     *)
(*                                                                         *)
(* Amounts are Python floats parsed from decimal text.  An amount is       *)
(* modelled by its number of pence k (the decimal it was parsed from); the *)
(* double it denotes is k/100 + Err(k) / (100 * 2^46), see Err.            *)
(***************************************************************************)
EXTENDS Integers, Sequences, FiniteSets, TLC

VARIABLES
    stateFile,      \* path -> content of the JSON state file
    historyFile,    \* path -> rows of the CSV history file
    now,            \* the clock read by datetime.now()
    pc,             \* target -> position of its run of main()
    cfg,            \* target -> parsed command line (args)
    site,           \* target -> what the page at its URL can show
    state,          \* target -> the dict returned by load_state
    last_price,     \* target -> state.get("last_price_gbp")
    fetched,        \* target -> the pair returned by fetch_price
    chosen,         \* target -> main's variable chosen
    ts,             \* target -> main's variable ts
    alert_reasons,  \* target -> main's list alert_reasons
    alertOut,       \* target -> the ALERT line printed and sent, <<>> if none
    started,        \* number of runs of main() started so far
    fnIn,           \* input of the function under check (function specifications)
    fnMid,          \* its intermediate value
    fnOut,          \* its result
    fnPc            \* its position

vars == <<stateFile, historyFile, now, pc, cfg, site, state, last_price, fetched,
          chosen, ts, alert_reasons, alertOut, started, fnIn, fnMid, fnOut, fnPc>>

mainVars == <<stateFile, historyFile, now, pc, cfg, site, state, last_price, fetched,
              chosen, ts, alert_reasons, alertOut, started>>

fnVars == <<fnIn, fnMid, fnOut, fnPc>>

--------------------------------------------------------------------------
(* Values *)

\* Python's None where a float is expected; every amount is >= 0.
None == -1

\* The amounts of the model, in pence: 0.00, 93.80, 95.00, 96.90, 100.00, 102.00.
Price == {0, 9380, 9500, 9690, 10000, 10200}

\* Bounds of the model.
MaxChecks == 2

MaxTextLen == 2

MaxCands == 2

\* The representation error of float("k/100"), the double nearest to the
\* decimal k/100, in units of 1/(100 * 2^46):
\*     Err(k) = 100 * (float(k/100) * 2^46) - k * 2^46.
\* Every amount of the model is 0 or lies in [64, 128), where a double is a
\* multiple of 2^-46, so Err(k) is an integer with |Err(k)| <= 50; it is 0
\* where k/100 is a double (95.0, 97.5, 100.0, 102.0).
Err(k) ==
    CASE k = 9380 -> -20
      [] k = 9690 -> 40
      [] OTHER -> 0

\* |x - y| as Python computes abs(x - y) on the two doubles.  Two amounts of
\* the model are within a factor 2 of each other or one is 0, so the
\* subtraction is exact (Sterbenz) and the result is
\*     (|kx - ky| * 2^46 + (+/-)(Err(kx) - Err(ky))) / (100 * 2^46).
\* 2^46 is replaced by 1000 > 2 * max |Err|, which keeps the order of any two
\* such results.
AbsDiff(x, y) ==
    IF x >= y THEN (x - y) * 1000 + (Err(x) - Err(y))
    ELSE (y - x) * 1000 + (Err(y) - Err(x))

MinOf(S) == CHOOSE m \in S : \A x \in S : m <= x

MaxOfSet(S) == CHOOSE m \in S : \A x \in S : x <= m

RECURSIVE SortAsc(_)
SortAsc(S) ==
    IF S = {} THEN <<>>
    ELSE LET m == MinOf(S) IN <<m>> \o SortAsc(S \ {m})

Range(s) == {s[i] : i \in 1..Len(s)}

\* All sequences over T of length at most n.
RECURSIVE SeqsUpTo(_, _)
SeqsUpTo(T, n) ==
    IF n = 0 THEN {<<>>}
    ELSE LET shorter == SeqsUpTo(T, n - 1)
         IN  shorter \cup {Append(s, t) : s \in {x \in shorter : Len(x) = n - 1}, t \in T}

--------------------------------------------------------------------------
(* extract_gbp_amounts and choose_best_price *)

\* A text is modelled by the sequence of the matches GBP_RE finds in it, in
\* order of appearance: each match by the amount, in pence, its group parses
\* to.  None and "" (the `text or ""` case) are the empty sequence.
extract_gbp_amounts(text) == SortAsc(Range(text))

\* Python's min(amounts, key=lambda x: abs(x - anchor)): the first element of
\* the list whose key is smallest.
RECURSIVE MinByKey(_, _, _, _)
MinByKey(amounts, anchor, i, best) ==
    IF i > Len(amounts) THEN best
    ELSE IF AbsDiff(amounts[i], anchor) < AbsDiff(best, anchor)
         THEN MinByKey(amounts, anchor, i + 1, amounts[i])
         ELSE MinByKey(amounts, anchor, i + 1, best)

choose_best_price(amounts, last, expected) ==
    IF amounts = <<>> THEN None
    ELSE IF last # None THEN MinByKey(amounts, last, 2, amounts[1])
    ELSE IF expected # None THEN MinByKey(amounts, expected, 2, amounts[1])
    ELSE MaxOfSet(Range(amounts))

--------------------------------------------------------------------------
(* extract_price_from_rate_button and find_saver_rate_price *)

\* The text of a sub-part (.rate-int, .rate-dec) is a sequence of characters.
\* A locator that matches nothing and a read that raises are these two values.
Missing == <<"Missing">>

Raised == <<"Raised">>

\* A text (a sequence of matches) whose read raised.
RaisedText == <<None>>

AsciiDigits == {"0", "1", "5", "9"}

DigitVal(c) == CASE c = "0" -> 0 [] c = "1" -> 1 [] c = "5" -> 5 [] c = "9" -> 9

\* str.strip(): leading and trailing white space removed.
RECURSIVE lstrip(_)
lstrip(s) == IF s # <<>> /\ Head(s) = " " THEN lstrip(Tail(s)) ELSE s

RECURSIVE rstrip(_)
rstrip(s) ==
    IF s # <<>> /\ s[Len(s)] = " " THEN rstrip(SubSeq(s, 1, Len(s) - 1)) ELSE s

strip(s) == rstrip(lstrip(s))

\* str.isdigit(): not empty and every character a digit; Python counts the
\* superscript two among them, which float() does not parse.
isdigit(s) == s # <<>> /\ \A i \in 1..Len(s) : s[i] \in AsciiDigits \cup {"²"}

RECURSIVE IntOf(_)
IntOf(s) == IF s = <<>> THEN 0 ELSE IntOf(SubSeq(s, 1, Len(s) - 1)) * 10 + DigitVal(s[Len(s)])

\* float(f"{int_part}.{dec_part}") in pence, None where float() raises
\* ValueError.  The fractions of the model have one or two digits.
FloatOfParts(int_part, dec_part) ==
    IF \E i \in 1..Len(int_part) : int_part[i] \notin AsciiDigits THEN None
    ELSE IF \E i \in 1..Len(dec_part) : dec_part[i] \notin AsciiDigits THEN None
    ELSE IntOf(int_part) * 100
         + (IF Len(dec_part) = 1 THEN IntOf(dec_part) * 10 ELSE IntOf(dec_part))

\* 1) the split spans (lines 18-27); None is "fell through to the next try".
SplitSpans(btn) ==
    IF btn.rate_int = Missing \/ btn.rate_dec = Missing THEN None
    ELSE IF btn.rate_int = Raised \/ btn.rate_dec = Raised THEN None
    ELSE LET int_part == strip(btn.rate_int)
             dec_part == strip(btn.rate_dec)
         IN  IF isdigit(int_part) /\ isdigit(dec_part)
             THEN FloatOfParts(int_part, dec_part)
             ELSE None

\* 2) and 3): the largest amount of a text that could be read (lines 30-46).
MaxAmountOf(txt) ==
    IF txt = RaisedText THEN None
    ELSE LET amts == extract_gbp_amounts(txt)
         IN  IF amts # <<>> THEN MaxOfSet(Range(amts)) ELSE None

ButtonSwapped(btn) ==
    IF MaxAmountOf(btn.inner_text) # None THEN MaxAmountOf(btn.inner_text)
    ELSE IF SplitSpans(btn) # None THEN SplitSpans(btn)
    ELSE MaxAmountOf(btn.text_content)

extract_price_from_rate_button(btn) ==
    IF SplitSpans(btn) # None THEN SplitSpans(btn)
    ELSE IF MaxAmountOf(btn.inner_text) # None THEN MaxAmountOf(btn.inner_text)
    ELSE MaxAmountOf(btn.text_content)

\* The variant over several selectors that the source keeps commented out
\* (lines 63-97): the first candidate that yields a price.
RECURSIVE FirstPriced(_, _)
FirstPriced(buttons, i) ==
    IF i > Len(buttons) THEN None
    ELSE IF extract_price_from_rate_button(buttons[i]) # None
         THEN extract_price_from_rate_button(buttons[i])
         ELSE FirstPriced(buttons, i + 1)

FindSaverAllCandidates(buttons) == FirstPriced(buttons, 1)

\* buttons: the elements that match button[data-rate-plan-code="SAVER"], in
\* document order; .first is buttons[1].
find_saver_rate_price(buttons) ==
    IF Len(buttons) = 0 THEN None
    ELSE IF ~buttons[1].visible THEN None
    ELSE extract_price_from_rate_button(buttons[1])

--------------------------------------------------------------------------
(* main: one run per monitored URL *)

\* The monitored URLs; each has at most one run of main() in flight.
Targets == {"t1", "t2"}

DefaultState == "travelodge_state.json"

DefaultHistory == "travelodge_history.csv"

OwnState(t) == IF t = "t1" THEN "t1_state.json" ELSE "t2_state.json"

OwnHistory(t) == IF t = "t1" THEN "t1_history.csv" ELSE "t2_history.csv"

StatePaths == {DefaultState} \cup {OwnState(t) : t \in Targets}

HistoryPaths == {DefaultHistory} \cup {OwnHistory(t) : t \in Targets}

\* --drop-pct takes any float: the default 5.0, zero, a negative one.
DropPcts == {-10, 0, 5}

\* --target and --expected, None when not given.
TargetPrices == {None, 9499, 9500}

ExpectedPrices == {None, 9750}

\* The command lines of target t (lines 278-288).
Args(t, expecteds, targets, drops, states) ==
    {[url |-> t, expected |-> e, target |-> g, drop_pct |-> d, state |-> sp,
      history |-> IF sp = DefaultState THEN DefaultHistory ELSE OwnHistory(t)] :
        e \in expecteds, g \in targets, d \in drops, sp \in states}

\* A state file that does not exist, or holds {}: state.get gives None.
EmptyState == [last_price_gbp |-> None, last_checked_utc |-> None]

AlwaysDefaultPath(args) == DefaultState

\* Path(args.state) (line 287).
StatePathOf(args) == args.state

\* load_state (lines 255-261).
load_state(path) == stateFile[path]

\* The rate buttons of the pages main is run on: the split spans give 95.00
\* or 0.00, the rendered text 102.00.
MainButtons ==
    [visible : BOOLEAN, rate_int : {Missing, <<"9", "5">>, <<"0">>},
     rate_dec : {<<"0", "0">>}, inner_text : {<<>>, <<10200>>},
     text_content : {<<>>}]

\* What the page at a URL can show: the amounts of its text and whether it
\* has Saver buttons.
FullSite == [prices |-> Price, saver |-> TRUE]

PageButtons(s) == IF s.saver THEN SeqsUpTo(MainButtons, 1) ELSE {<<>>}

\* The matches of the body's text and of the page's markup.
PageTexts(s) == SeqsUpTo(s.prices, MaxTextLen)

PageContents(s) == {<<>>} \cup {<<k>> : k \in s.prices \cap {9500}}

\* fetch_price up to line 223: chosen stays None when page.goto raises the
\* timeout (line 198), else it is the Saver rate.  buttons: the Saver
\* buttons the browser shows, in document order.
fetch_chosen(goto_timeout, buttons) ==
    IF goto_timeout THEN None ELSE find_saver_rate_price(buttons)

\* fetch_price from line 225, and its timeout handler (lines 233-245): the
\* amounts of the body's text and of the markup, merged, sorted, deduplicated.
fetch_amounts(text, content) ==
    SortAsc(Range(extract_gbp_amounts(text) \o extract_gbp_amounts(content)))

FinalChosenFalsy(f, last, expected) ==
    IF f.chosen = None \/ f.chosen = 0
    THEN choose_best_price(f.amounts, last, expected)
    ELSE f.chosen

\* Lines 296-297: the heuristic only if the Saver extraction gave None.
FinalChosen(f, last, expected) ==
    IF f.chosen = None
    THEN choose_best_price(f.amounts, last, expected)
    ELSE f.chosen

BelowTargetStrict(price, target) == target # None /\ price < target

\* Line 313.
BelowTargetFires(price, target) == target # None /\ price <= target

\* The pairs (last, chosen) of the model whose drop in percent is a whole
\* number that Python's (last - chosen) / last * 100.0 misses from below:
\* (102.00 - 96.90) / 102.00 * 100.0 = 4.999999999999995 and
\* (95.00 - 96.90) / 95.00 * 100.0 = -2.0000000000000058.  No pair of the
\* model with a whole-number drop is missed from above; the others (p to p,
\* p to 0.00, 100.00 to 95.00) are computed exactly.
DropRoundsBelow == {<<10200, 9690>>, <<9500, 9690>>}

\* drop_pct >= threshold (lines 317-318) for a whole-number threshold.  The
\* decimal drop 100 * (last - chosen) / last is either the threshold, where
\* the rounding of the double decides, or at least 1/last away from it,
\* which no rounding error bridges.
DropAtLeast(last, price, threshold) ==
    \/ (last - price) * 100 > threshold * last
    \/ /\ (last - price) * 100 = threshold * last
       /\ <<last, price>> \notin DropRoundsBelow

\* Lines 316-318.
PriceDropFires(last, price, threshold) ==
    last # None /\ last > 0 /\ DropAtLeast(last, price, threshold)

BelowTarget(price, target) == [reason |-> "price <= target", price |-> price, ref |-> target]

PriceDrop(last, price) == [reason |-> "dropped", price |-> price, ref |-> last]

\* Lines 311-319.
AlertReasons(price, last, args) ==
    (IF BelowTargetFires(price, args.target)
     THEN <<BelowTarget(price, args.target)>> ELSE <<>>)
    \o (IF PriceDropFires(last, price, args.drop_pct)
        THEN <<PriceDrop(last, price)>> ELSE <<>>)

Blank == [t \in Targets |-> None]

NoFetch == [chosen |-> None, amounts |-> <<>>]

\* The process starts: argparse has the arguments (lines 277-288).
Start(t) ==
    /\ pc[t] = "idle"
    /\ started < MaxChecks
    /\ pc' = [pc EXCEPT ![t] = "load"]
    /\ started' = started + 1
    /\ UNCHANGED <<stateFile, historyFile, now, cfg, site, state, last_price, fetched,
                   chosen, ts, alert_reasons, alertOut, fnVars>>

\* Lines 290-291.
LoadState(t) ==
    /\ pc[t] = "load"
    /\ state' = [state EXCEPT ![t] = load_state(StatePathOf(cfg[t]))]
    /\ last_price' = [last_price EXCEPT ![t] = state'[t].last_price_gbp]
    /\ pc' = [pc EXCEPT ![t] = "fetch"]
    /\ UNCHANGED <<stateFile, historyFile, now, cfg, site, fetched, chosen, ts,
                   alert_reasons, alertOut, started, fnVars>>

\* Line 293, fetch_price: the page is opened and the Saver rate looked for.
FetchPrice(t) ==
    /\ pc[t] = "fetch"
    /\ \E goto_timeout \in BOOLEAN, buttons \in PageButtons(site[t]) :
          fetched' = [fetched EXCEPT ![t].chosen = fetch_chosen(goto_timeout, buttons)]
    /\ pc' = [pc EXCEPT ![t] = "collect"]
    /\ UNCHANGED <<stateFile, historyFile, now, cfg, site, state, last_price, chosen,
                   ts, alert_reasons, alertOut, started, fnVars>>

\* Line 293, fetch_price: the amounts of the whole page; fetch_price returns.
CollectAmounts(t) ==
    /\ pc[t] = "collect"
    /\ \E text \in PageTexts(site[t]), content \in PageContents(site[t]) :
          fetched' = [fetched EXCEPT ![t].amounts = fetch_amounts(text, content)]
    /\ pc' = [pc EXCEPT ![t] = "choose"]
    /\ UNCHANGED <<stateFile, historyFile, now, cfg, site, state, last_price, chosen,
                   ts, alert_reasons, alertOut, started, fnVars>>

\* Lines 295-304: the fallback, the timestamp, the history row.  A row
\* holds the timestamp, the chosen price and the URL.
ChoosePrice(t) ==
    /\ pc[t] = "choose"
    /\ chosen' = [chosen EXCEPT ![t] = FinalChosen(fetched[t], last_price[t], cfg[t].expected)]
    /\ ts' = [ts EXCEPT ![t] = now]
    /\ now' = now + 1
    /\ historyFile' = [historyFile EXCEPT ![cfg[t].history] =
                          Append(@, [ts |-> now, price |-> chosen'[t], url |-> cfg[t].url])]
    /\ pc' = [pc EXCEPT ![t] = "detect"]
    /\ UNCHANGED <<stateFile, cfg, site, state, last_price, fetched, alert_reasons,
                   alertOut, started, fnVars>>

UndetectedClearsState(t) ==
    /\ pc[t] = "detect"
    /\ chosen[t] = None
    /\ stateFile' = [stateFile EXCEPT ![StatePathOf(cfg[t])] =
                        [last_price_gbp |-> None, last_checked_utc |-> ts[t]]]
    /\ pc' = [pc EXCEPT ![t] = "exit2"]
    /\ UNCHANGED <<historyFile, now, cfg, site, state, last_price, fetched, chosen,
                   ts, alert_reasons, alertOut, started, fnVars>>

\* Lines 306-308: no price, SystemExit(2).
Undetected(t) ==
    /\ pc[t] = "detect"
    /\ chosen[t] = None
    /\ pc' = [pc EXCEPT ![t] = "exit2"]
    /\ UNCHANGED <<stateFile, historyFile, now, cfg, site, state, last_price, fetched,
                   chosen, ts, alert_reasons, alertOut, started, fnVars>>

SaveOnlyOnAlert(t) ==
    /\ pc[t] = "detect"
    /\ chosen[t] # None
    /\ alert_reasons' = [alert_reasons EXCEPT ![t] = AlertReasons(chosen[t], last_price[t], cfg[t])]
    /\ stateFile' = IF alert_reasons'[t] = <<>> THEN stateFile
                    ELSE [stateFile EXCEPT ![StatePathOf(cfg[t])] =
                             [state[t] EXCEPT !.last_price_gbp = chosen[t],
                                              !.last_checked_utc = ts[t]]]
    /\ alertOut' = [alertOut EXCEPT ![t] = alert_reasons'[t]]
    /\ pc' = [pc EXCEPT ![t] = "done"]
    /\ UNCHANGED <<historyFile, now, cfg, site, state, last_price, fetched, chosen, ts, started, fnVars>>

\* Lines 311-328: the alert reasons, the state file, the alert.
DetectAndSave(t) ==
    /\ pc[t] = "detect"
    /\ chosen[t] # None
    /\ alert_reasons' = [alert_reasons EXCEPT ![t] = AlertReasons(chosen[t], last_price[t], cfg[t])]
    /\ stateFile' = [stateFile EXCEPT ![StatePathOf(cfg[t])] =
                        [state[t] EXCEPT !.last_price_gbp = chosen[t],
                                         !.last_checked_utc = ts[t]]]
    /\ alertOut' = [alertOut EXCEPT ![t] = alert_reasons'[t]]
    /\ pc' = [pc EXCEPT ![t] = "done"]
    /\ UNCHANGED <<historyFile, now, cfg, site, state, last_price, fetched, chosen, ts, started, fnVars>>

\* The process ends; its variables go with it.
Exit(t) ==
    /\ pc[t] \in {"done", "exit2"}
    /\ pc' = [pc EXCEPT ![t] = "idle"]
    /\ state' = [state EXCEPT ![t] = EmptyState]
    /\ last_price' = [last_price EXCEPT ![t] = None]
    /\ fetched' = [fetched EXCEPT ![t] = NoFetch]
    /\ chosen' = [chosen EXCEPT ![t] = None]
    /\ ts' = [ts EXCEPT ![t] = None]
    /\ alert_reasons' = [alert_reasons EXCEPT ![t] = <<>>]
    /\ alertOut' = [alertOut EXCEPT ![t] = <<>>]
    /\ UNCHANGED <<stateFile, historyFile, now, cfg, site, started, fnVars>>

FnIdle == fnIn = <<>> /\ fnMid = <<>> /\ fnOut = None /\ fnPc = "off"

InitFiles ==
    /\ stateFile = [p \in StatePaths |-> EmptyState]
    /\ historyFile = [p \in HistoryPaths |-> <<>>]
    /\ now = 1
    /\ started = 0

InitLocals ==
    /\ state = [t \in Targets |-> EmptyState]
    /\ last_price = Blank
    /\ fetched = [t \in Targets |-> NoFetch]
    /\ chosen = Blank
    /\ ts = Blank
    /\ alert_reasons = [t \in Targets |-> <<>>]
    /\ alertOut = [t \in Targets |-> <<>>]

\* One URL watched by successive runs, under any command line.
Init ==
    /\ InitFiles
    /\ InitLocals
    /\ pc = [t \in Targets |-> IF t = "t1" THEN "idle" ELSE "off"]
    /\ cfg \in [Targets -> UNION {Args(t, ExpectedPrices, TargetPrices, DropPcts, {DefaultState}) : t \in Targets}]
    /\ \A t \in Targets : cfg[t].url = t
    /\ cfg["t2"] = [cfg["t1"] EXCEPT !.url = "t2"]
    /\ site = [t \in Targets |-> FullSite]
    /\ FnIdle

Next ==
    \E t \in Targets :
        \/ Start(t)
        \/ LoadState(t)
        \/ FetchPrice(t)
        \/ CollectAmounts(t)
        \/ ChoosePrice(t)
        \/ Undetected(t)
        \/ DetectAndSave(t)
        \/ Exit(t)

Spec == Init /\ [][Next]_vars

\* Two URLs watched at once, each run finding the state an earlier run left
\* in its state file, or none.
PriorStates == {EmptyState, [last_price_gbp |-> 10000, last_checked_utc |-> 0]}

InitConcurrent ==
    /\ stateFile \in [StatePaths -> PriorStates]
    /\ historyFile = [p \in HistoryPaths |-> <<>>]
    /\ now = 1
    /\ started = 0
    /\ InitLocals
    /\ pc = [t \in Targets |-> "idle"]
    /\ cfg \in [Targets -> UNION {Args(t, {None}, {None}, {5}, {DefaultState, OwnState(t)}) : t \in Targets}]
    /\ \A t \in Targets : cfg[t].url = t
    /\ site = [t \in Targets |-> [prices |-> IF t = "t1" THEN {9500, 10000} ELSE {9380, 10200},
                                  saver |-> FALSE]]
    /\ FnIdle

SpecConcurrent == InitConcurrent /\ [][Next]_vars

--------------------------------------------------------------------------
(* The functions on their own: every input of a bounded set, then the call *)

MainOff ==
    /\ InitFiles
    /\ InitLocals
    /\ pc = [t \in Targets |-> "off"]
    /\ cfg = [t \in Targets |-> CHOOSE a \in Args(t, {None}, {None}, {5}, {DefaultState}) : TRUE]
    /\ site = [t \in Targets |-> FullSite]

\* choose_best_price on the amounts scanned from a text.
InitChooser ==
    /\ MainOff
    /\ fnIn \in [text : SeqsUpTo(Price, MaxTextLen), last : Price \cup {None},
                 expected : ExpectedPrices]
    /\ fnMid = <<>>
    /\ fnOut = None
    /\ fnPc = "scan"

\* Lines 230-231.
Scan ==
    /\ fnPc = "scan"
    /\ fnMid' = extract_gbp_amounts(fnIn.text)
    /\ fnPc' = "choose"
    /\ UNCHANGED <<fnIn, fnOut, mainVars>>

\* Line 297.
Choose ==
    /\ fnPc = "choose"
    /\ fnOut' = choose_best_price(fnMid, fnIn.last, fnIn.expected)
    /\ fnPc' = "done"
    /\ UNCHANGED <<fnIn, fnMid, mainVars>>

NextChooser == Scan \/ Choose

SpecChooser == InitChooser /\ [][NextChooser]_vars

\* extract_price_from_rate_button on one rate button.
IntTexts == {<<"9", "5">>, <<"1", "0", "0">>, <<" ", "9", "5">>, <<"x">>}

DecTexts == {<<"0", "0">>, <<"5">>, <<"5", " ">>, <<"²">>, <<>>}

ButtonTexts == {RaisedText} \cup SeqsUpTo({9380, 10000}, MaxTextLen)

InitExtract ==
    /\ MainOff
    /\ fnIn \in [visible : {TRUE}, rate_int : {Missing, Raised} \cup IntTexts,
                 rate_dec : {Missing, Raised} \cup DecTexts,
                 inner_text : ButtonTexts, text_content : ButtonTexts]
    /\ fnMid = <<>>
    /\ fnOut = None
    /\ fnPc = "extract"

\* Line 59.
Extract ==
    /\ fnPc = "extract"
    /\ fnOut' = extract_price_from_rate_button(fnIn)
    /\ fnPc' = "done"
    /\ UNCHANGED <<fnIn, fnMid, mainVars>>

SpecExtract == InitExtract /\ [][Extract]_vars

\* find_saver_rate_price on the Saver buttons of a page.
SaverButtons ==
    [visible : BOOLEAN, rate_int : {Missing, <<"9", "5">>}, rate_dec : {<<"0", "0">>},
     inner_text : {<<>>, <<10000>>}, text_content : {<<>>, <<9380>>}]

InitResolver ==
    /\ MainOff
    /\ fnIn \in SeqsUpTo(SaverButtons, MaxCands)
    /\ fnMid = <<>>
    /\ fnOut = None
    /\ fnPc = "resolve"

\* Line 222.
Resolve ==
    /\ fnPc = "resolve"
    /\ fnOut' = find_saver_rate_price(fnIn)
    /\ fnPc' = "done"
    /\ UNCHANGED <<fnIn, fnMid, mainVars>>

SpecResolver == InitResolver /\ [][Resolve]_vars

--------------------------------------------------------------------------
(* The claims *)

HasBelowTarget(t) ==
    \E i \in 1..Len(alert_reasons[t]) : alert_reasons[t][i].reason = "price <= target"

HasPriceDrop(t) ==
    \E i \in 1..Len(alert_reasons[t]) : alert_reasons[t][i].reason = "dropped"

Saved(t) == [last_price_gbp |-> chosen[t], last_checked_utc |-> ts[t]]

\* C1: a check that detects no price leaves the persisted state exactly as it
\* was and emits neither BelowTarget nor PriceDrop; the state file changes only
\* when a check that detected a price stores that price, so the stored price
\* is always the one of the latest check that detected one.
C1_UndetectedKeepsState ==
    [][/\ \A t \in Targets :
             (pc[t] = "detect" /\ chosen[t] = None /\ pc'[t] # pc[t])
             => /\ stateFile' = stateFile
                /\ pc'[t] = "exit2"
                /\ alert_reasons'[t] = <<>>
                /\ alertOut'[t] = <<>>
       /\ stateFile' # stateFile
          => \E t \in Targets :
                /\ pc[t] = "detect"
                /\ chosen[t] # None
                /\ \A p \in StatePaths :
                      IF p = cfg[t].state
                      THEN stateFile'[p].last_price_gbp = chosen[t]
                      ELSE stateFile'[p] = stateFile[p]]_vars

\* C1's case: a check ended without a price while the state file held a price.
C1_Witness ==
    \E t \in Targets :
        /\ pc[t] = "exit2"
        /\ cfg[t].target # None
        /\ last_price[t] # None
        /\ stateFile[cfg[t].state].last_price_gbp = last_price[t]

\* C2: after a check that detected a price, the state file holds that price
\* and the check's timestamp, whether no, one or two alert reasons fired.
C2_SuccessOverwritesState ==
    \A t \in Targets :
        pc[t] = "done"
        => /\ chosen[t] # None
           /\ stateFile[cfg[t].state] = Saved(t)
           /\ Len(alert_reasons[t]) \in 0..2

\* C2's case: a second check with no alert overwrote another price and time.
C2_Witness ==
    \E t \in Targets :
        /\ pc[t] = "done"
        /\ alert_reasons[t] = <<>>
        /\ state[t].last_price_gbp \notin {None, chosen[t]}
        /\ state[t].last_checked_utc # ts[t]
        /\ stateFile[cfg[t].state].last_price_gbp = chosen[t]

\* C3: in a check that detected a price, PriceDrop is emitted exactly when a
\* prior price exists, is > 0 and (prior - chosen) / prior * 100 >= the
\* threshold, the boundary included; it is emitted whether or not BelowTarget
\* is, and after it when both are.
C3_DropIffAtLeastThreshold ==
    \A t \in Targets :
        pc[t] = "done"
        => /\ HasPriceDrop(t)
              <=> /\ last_price[t] # None
                  /\ last_price[t] > 0
                  /\ (last_price[t] - chosen[t]) * 100 >= cfg[t].drop_pct * last_price[t]
           /\ (HasBelowTarget(t) /\ HasPriceDrop(t))
              => /\ Len(alert_reasons[t]) = 2
                 /\ alert_reasons[t][1].reason = "price <= target"
                 /\ alert_reasons[t][2].reason = "dropped"

\* C4: in a check that detected a price, BelowTarget is emitted exactly when
\* a target is configured and chosen <= target, the boundary included.
C4_BelowTargetIffAtMostTarget ==
    \A t \in Targets :
        pc[t] = "done"
        => (HasBelowTarget(t) <=> (cfg[t].target # None /\ chosen[t] <= cfg[t].target))

\* C4's case: the chosen price equals the target and BelowTarget fired.
C4_Witness ==
    \E t \in Targets :
        /\ pc[t] = "done"
        /\ cfg[t].target = chosen[t]
        /\ HasBelowTarget(t)

\* C5: the Saver rate, when there is one, is the price of the check whatever
\* the scanned amounts, the last price and the expected price are; the
\* heuristic's choice is the price exactly when there is no Saver rate; the
\* alerts and the stored state are about that one price.
C5_ResolverFirstChooserFallback ==
    \A t \in Targets :
        pc[t] \in {"detect", "done", "exit2"}
        => /\ fetched[t].chosen # None => chosen[t] = fetched[t].chosen
           /\ fetched[t].chosen = None
              => chosen[t] = choose_best_price(fetched[t].amounts, last_price[t], cfg[t].expected)
           /\ \A i \in 1..Len(alert_reasons[t]) : alert_reasons[t][i].price = chosen[t]

\* C5's case: a Saver rate that the heuristic would not have chosen.
C5_Witness ==
    \E t \in Targets :
        /\ pc[t] = "done"
        /\ fetched[t].chosen # None
        /\ fetched[t].amounts # <<>>
        /\ choose_best_price(fetched[t].amounts, last_price[t], cfg[t].expected) # fetched[t].chosen
        /\ chosen[t] = fetched[t].chosen

\* C10: a check whose chosen price is above the prior price emits no
\* PriceDrop, whatever threshold --drop-pct was given.
C10_IncreaseNeverDrops ==
    \A t \in Targets :
        (pc[t] = "done" /\ last_price[t] # None /\ chosen[t] > last_price[t])
        => ~HasPriceDrop(t)

\* What the claims say of one rate button, stated on its texts.
DecimalDigits(s) == s # <<>> /\ \A i \in 1..Len(s) : s[i] \in {"0", "1", "5", "9"}

\* Both sub-parts exist, could be read and, white space around them aside,
\* are all digits.
HasSplit(b) ==
    /\ b.rate_int \notin {Missing, Raised}
    /\ b.rate_dec \notin {Missing, Raised}
    /\ DecimalDigits(strip(b.rate_int))
    /\ DecimalDigits(strip(b.rate_dec))

\* integer.fraction in pence.
SplitValue(b) ==
    LET d == strip(b.rate_dec)
    IN  IntOf(strip(b.rate_int)) * 100 + (IF Len(d) = 1 THEN 10 * IntOf(d) ELSE IntOf(d))

AmountsIn(txt) == IF txt = RaisedText THEN {} ELSE Range(txt)

DecimalDistance(a, b) == IF a >= b THEN a - b ELSE b - a

Nearest(amts, anchor) ==
    MinOf({a \in amts : \A b \in amts : DecimalDistance(a, anchor) <= DecimalDistance(b, anchor)})

\* C7: choose_best_price gives null exactly for the empty list; with a last
\* price the amount nearest to it, the smallest one on a tie, whatever the
\* expected price is; else with an expected price the amount nearest to that;
\* else the largest amount; the result is one of the amounts.
C7_NearestSmallestOnTie ==
    fnPc = "done"
    => LET amts == Range(fnMid)
       IN  /\ fnOut = None <=> amts = {}
           /\ amts # {}
              => /\ fnOut \in amts
                 /\ fnIn.last # None => fnOut = Nearest(amts, fnIn.last)
                 /\ (fnIn.last = None /\ fnIn.expected # None)
                    => fnOut = Nearest(amts, fnIn.expected)
                 /\ (fnIn.last = None /\ fnIn.expected = None) => fnOut = MaxOfSet(amts)

\* A candidate's result: none when it never becomes visible.
CandidateResult(b) == IF b.visible THEN extract_price_from_rate_button(b) ELSE None

RECURSIVE FirstResult(_, _)
FirstResult(buttons, i) ==
    IF i > Len(buttons) THEN None
    ELSE IF CandidateResult(buttons[i]) # None THEN CandidateResult(buttons[i])
    ELSE FirstResult(buttons, i + 1)

\* C8 as claimed: the result is that of the earliest candidate that yields
\* one; a later candidate is consulted when every earlier one yielded null.
C8_FirstNonNullCandidate == fnPc = "done" => fnOut = FirstResult(fnIn, 1)

\* C8 as amended: only the first candidate is consulted; the result is its
\* result, null when there is no candidate or the first yields none, whatever
\* the later candidates hold.
C8_OnlyFirstCandidate ==
    fnPc = "done"
    => /\ fnIn = <<>> => fnOut = None
       /\ fnIn # <<>> => fnOut = CandidateResult(fnIn[1])
       /\ \A i \in 2..Len(fnIn) :
             (CandidateResult(fnIn[1]) = None /\ CandidateResult(fnIn[i]) # None)
             => fnOut = None

\* C8's case: the first candidate yields nothing, the second has a price.
C8_Witness ==
    /\ fnPc = "done"
    /\ Len(fnIn) = 2
    /\ fnIn[1].visible
    /\ CandidateResult(fnIn[1]) = None
    /\ CandidateResult(fnIn[2]) # None
    /\ fnOut = None

====
